---- MODULE Spec2Model ----
(***************************************************************************)
(* A model of scripts/migrate.py: the LogseqMigrator conversion session    *)
(* and its per-file rewrite pipeline.  Text is a sequence of one-character *)
(* strings; every regular expression of the source is translated to an     *)
(* operator that matches the way Python's re module does (leftmost match,  *)
(* greedy and lazy quantifiers, non-overlapping substitution).             *)
(***************************************************************************)
EXTENDS Integers, Sequences, FiniteSets, TLC

\* ------------------------------------------------------------------------
\* Characters and character classes
\* ------------------------------------------------------------------------

NL == "\n"
TAB == "\t"
SP == " "

LowerSeq == <<"a","b","c","d","e","f","g","h","i","j","k","l","m",
              "n","o","p","q","r","s","t","u","v","w","x","y","z">>
UpperSeq == <<"A","B","C","D","E","F","G","H","I","J","K","L","M",
              "N","O","P","Q","R","S","T","U","V","W","X","Y","Z">>
Lower == {LowerSeq[i] : i \in 1..26}
Upper == {UpperSeq[i] : i \in 1..26}
Digit == {"0","1","2","3","4","5","6","7","8","9"}

\* \s, \w, [\w-] and [a-f0-9-] of the source's patterns (ASCII part)
WS == {SP, TAB, NL}
WordCh == Lower \cup Upper \cup Digit \cup {"_"}
KeyCh == WordCh \cup {"-"}
IdCh == {"a","b","c","d","e","f","-"} \cup Digit

\* str.upper() on one character
UpperCh(c) ==
  IF c \in Lower THEN UpperSeq[CHOOSE i \in 1..26 : LowerSeq[i] = c] ELSE c

UpperStr(s) == [i \in 1..Len(s) |-> UpperCh(s[i])]

\* ------------------------------------------------------------------------
\* Text helpers (str methods of Python)
\* ------------------------------------------------------------------------

\* s[i:] starts with lit  (i is 1-based)
StartsAt(s, i, lit) ==
  /\ i + Len(lit) - 1 <= Len(s)
  /\ \A k \in 1..Len(lit) : s[i + k - 1] = lit[k]

\* the same, ignoring case (re.IGNORECASE on a literal)
StartsAtI(s, i, lit) ==
  /\ i + Len(lit) - 1 <= Len(s)
  /\ \A k \in 1..Len(lit) : UpperCh(s[i + k - 1]) = UpperCh(lit[k])

\* lit in s
Contains(s, lit) == \E i \in 1..(Len(s) + 1) : StartsAt(s, i, lit)

\* index just after the longest run of characters of S that starts at i
SkipSet(s, i, S) ==
  CHOOSE j \in i..(Len(s) + 1) :
    /\ \A k \in i..(j - 1) : s[k] \in S
    /\ (j = Len(s) + 1 \/ s[j] \notin S)

\* str.lstrip(), str.rstrip(), str.strip()
LStrip(s) == SubSeq(s, SkipSet(s, 1, WS), Len(s))
RStrip(s) ==
  LET e == CHOOSE j \in 0..Len(s) :
             /\ \A k \in (j + 1)..Len(s) : s[k] \in WS
             /\ (j = 0 \/ s[j] \notin WS)
  IN SubSeq(s, 1, e)
Strip(s) == LStrip(RStrip(s))

\* s.split(sep) for a one-character separator
RECURSIVE SplitOn(_, _)
SplitOn(s, sep) ==
  IF \A i \in 1..Len(s) : s[i] # sep THEN <<s>>
  ELSE LET p == CHOOSE i \in 1..Len(s) :
                  s[i] = sep /\ \A j \in 1..(i - 1) : s[j] # sep
       IN <<SubSeq(s, 1, p - 1)>> \o SplitOn(SubSeq(s, p + 1, Len(s)), sep)

\* "\n".join(lines)
RECURSIVE JoinNL(_)
JoinNL(lines) ==
  IF Len(lines) = 0 THEN <<>>
  ELSE IF Len(lines) = 1 THEN lines[1]
  ELSE lines[1] \o <<NL>> \o JoinNL(Tail(lines))

\* the least element of a non-empty set of positions
Min(S) == CHOOSE m \in S : \A k \in S : m <= k

\* concatenation of a sequence of texts
RECURSIVE Concat(_)
Concat(parts) ==
  IF Len(parts) = 0 THEN <<>> ELSE parts[1] \o Concat(Tail(parts))

\* ------------------------------------------------------------------------
\* Stage 1: convert_properties_to_frontmatter
\* ------------------------------------------------------------------------

\* keys skipped at line 100
ReservedKeys == {<<"c","o","l","l","a","p","s","e","d">>, <<"l","o","g","s","e","q",".","o","r","d","e","r","-","l","i","s","t","-","t","y","p","e">>, <<"i","d">>}
\* keys whose comma-separated value becomes a list (line 104)
ListKeys == {<<"t","a","g","s">>, <<"a","l","i","a","s">>, <<"a","l","i","a","s","e","s">>}

\* re.match(r'^([\w-]+)::\s*(.+)$', line): the key is the longest prefix of
\* [\w-], "::" follows it, and at least one character follows that.
PropKeyEnd(line) == SkipSet(line, 1, KeyCh)
PropMatch(line) ==
  LET k == PropKeyEnd(line)
  IN /\ k > 1
     /\ StartsAt(line, k, <<":",":">>)
     /\ k + 2 <= Len(line)
     /\ \A i \in (k + 2)..Len(line) : line[i] # NL
PropKey(line) == SubSeq(line, 1, PropKeyEnd(line) - 1)
\* group(2).strip(): \s* and strip() together trim the remainder
PropValue(line) == Strip(SubSeq(line, PropKeyEnd(line) + 2, Len(line)))

\* properties[key] = ... on an insertion-ordered dict: a sequence of
\* records [key, list, value, items]
PropEntry(key, value) ==
  IF Contains(value, <<",">>) /\ key \in ListKeys
    THEN [key |-> key, list |-> TRUE, value |-> <<>>,
          items |-> [i \in 1..Len(SplitOn(value, ",")) |->
                       Strip(SplitOn(value, ",")[i])]]
    ELSE [key |-> key, list |-> FALSE, value |-> value, items |-> <<>>]

DictSet(d, e) ==
  IF \E i \in 1..Len(d) : d[i].key = e.key
    THEN [i \in 1..Len(d) |-> IF d[i].key = e.key THEN e ELSE d[i]]
    ELSE Append(d, e)

\* the loop of lines 91-110
RECURSIVE PropScan(_, _, _, _, _)
PropScan(lines, i, properties, new_lines, in_content) ==
  IF i > Len(lines)
    THEN [properties |-> properties, new_lines |-> new_lines]
  ELSE IF PropMatch(lines[i]) /\ ~in_content
    THEN IF PropKey(lines[i]) \in ReservedKeys
           THEN PropScan(lines, i + 1, properties, new_lines, in_content)
           ELSE PropScan(lines, i + 1,
                         DictSet(properties,
                                 PropEntry(PropKey(lines[i]), PropValue(lines[i]))),
                         new_lines, in_content)
    ELSE PropScan(lines, i + 1, properties, Append(new_lines, lines[i]), TRUE)

\* lines 115-125: the frontmatter lines of one property
FrontmatterEntry(e) ==
  IF e.list
    THEN <<e.key \o <<":">>>> \o
         [i \in 1..Len(e.items) |-> <<" "," ","-"," ">> \o e.items[i]]
  ELSE IF Contains(e.value, <<":">>) \/ StartsAt(e.value, 1, <<"[">>)
    THEN <<e.key \o <<":"," ","\"">> \o e.value \o <<"\"">>>>
    ELSE <<e.key \o <<":"," ">> \o e.value>>

RECURSIVE FrontmatterEntries(_)
FrontmatterEntries(d) ==
  IF Len(d) = 0 THEN <<>>
  ELSE FrontmatterEntry(d[1]) \o FrontmatterEntries(Tail(d))

\* the whole stage: [text, keys]
convert_properties_to_frontmatter(content) ==
  LET r == PropScan(SplitOn(content, NL), 1, <<>>, <<>>, FALSE)
      frontmatter_lines ==
        <<<<"-","-","-">>>> \o FrontmatterEntries(r.properties) \o <<<<"-","-","-">>, <<>>>>
  IN IF Len(r.properties) > 0
       THEN [text |-> JoinNL(frontmatter_lines) \o JoinNL(r.new_lines),
             keys |-> [i \in 1..Len(r.properties) |-> r.properties[i].key]]
       ELSE [text |-> content, keys |-> <<>>]

\* ------------------------------------------------------------------------
\* Stage 2: convert_admonitions
\* ------------------------------------------------------------------------

\* ADMONITION_MAP (lines 21-31) as key/value pairs
ADMONITION_MAP ==
  << <<<<"T","I","P">>, <<"t","i","p">>>>, <<<<"N","O","T","E">>, <<"n","o","t","e">>>>, <<<<"W","A","R","N","I","N","G">>, <<"w","a","r","n","i","n","g">>>>,
     <<<<"C","A","U","T","I","O","N">>, <<"c","a","u","t","i","o","n">>>>, <<<<"I","M","P","O","R","T","A","N","T">>, <<"i","m","p","o","r","t","a","n","t">>>>,
     <<<<"Q","U","O","T","E">>, <<"q","u","o","t","e">>>>, <<<<"E","X","A","M","P","L","E">>, <<"e","x","a","m","p","l","e">>>>,
     <<<<"P","I","N","N","E","D">>, <<"i","n","f","o">>>>, <<<<"C","E","N","T","E","R">>, <<"n","o","t","e">>>> >>

\* self.ADMONITION_MAP.get(admon_type, "note")
AdmonitionType(admon_type) ==
  IF \E i \in 1..Len(ADMONITION_MAP) : ADMONITION_MAP[i][1] = admon_type
    THEN ADMONITION_MAP[CHOOSE i \in 1..Len(ADMONITION_MAP) :
                          ADMONITION_MAP[i][1] = admon_type][2]
    ELSE <<"n","o","t","e">>

BeginLit == <<"#","+","B","E","G","I","N","_">>
EndLit == <<"#","+","E","N","D","_">>

\* r'#\+BEGIN_(\w+)\s*\n(.*?)#\+END_\1' with DOTALL | IGNORECASE, tried at
\* position p.  (\w+) is the longest word run; \s*\n ends at the last newline
\* of the whitespace run after it; (.*?) ends at the first later position
\* where #+END_ and the type (both compared ignoring case) start.
AdmonMatch(s, p) ==
  IF ~StartsAtI(s, p, BeginLit) THEN [ok |-> FALSE]
  ELSE
    LET a == p + Len(BeginLit)
        w == SkipSet(s, a, WordCh)
        x == SkipSet(s, w, WS)
        nls == {n \in w..(x - 1) : s[n] = NL}
    IN IF w = a \/ nls = {} THEN [ok |-> FALSE]
       ELSE
         LET n == CHOOSE m \in nls : \A k \in nls : k <= m
             type == SubSeq(s, a, w - 1)
             endm == EndLit \o type
             es == {e \in (n + 1)..(Len(s) + 1) : StartsAtI(s, e, endm)}
         IN IF es = {} THEN [ok |-> FALSE]
            ELSE LET e == CHOOSE m \in es : \A k \in es : m <= k
                 IN [ok |-> TRUE, type |-> type,
                     body |-> SubSeq(s, n + 1, e - 1),
                     full |-> SubSeq(s, p, e + Len(endm) - 1),
                     end |-> e + Len(endm)]

\* the loop of replace_admonition without its test `if stripped`
RECURSIVE CalloutBody_keeps_blank(_, _)
CalloutBody_keeps_blank(body_lines, indent) ==
  IF Len(body_lines) = 0 THEN <<>>
  ELSE <<indent \o <<">"," ">> \o Strip(body_lines[1])>>
       \o CalloutBody_keeps_blank(Tail(body_lines), indent)

\* replace_admonition (lines 136-158)
RECURSIVE CalloutBody(_, _)
CalloutBody(body_lines, indent) ==
  IF Len(body_lines) = 0 THEN <<>>
  ELSE (IF Strip(body_lines[1]) # <<>>
          THEN <<indent \o <<">"," ">> \o Strip(body_lines[1])>>
          ELSE <<>>)
       \o CalloutBody(Tail(body_lines), indent)

replace_admonition(m) ==
  LET first_line == SplitOn(m.full, NL)[1]
      indent == SubSeq(first_line, 1, SkipSet(first_line, 1, WS) - 1)
      obsidian_type == AdmonitionType(UpperStr(m.type))
      body_lines == SplitOn(Strip(m.body), NL)
  IN JoinNL(<<indent \o <<">"," ","[","!">> \o obsidian_type \o <<"]">>>>
            \o CalloutBody(body_lines, indent))

\* re.sub over the whole text: [text, count], count the number of calls of
\* replace_admonition (each adds one to stats["admonitions_converted"])
RECURSIVE AdmonSub(_, _)
AdmonSub(s, p) ==
  LET qs == {q \in p..Len(s) : AdmonMatch(s, q).ok}
  IN IF qs = {} THEN [text |-> SubSeq(s, p, Len(s)), count |-> 0]
     ELSE LET q == Min(qs)
              m == AdmonMatch(s, q)
              r == AdmonSub(s, m.end)
          IN [text |-> SubSeq(s, p, q - 1) \o replace_admonition(m) \o r.text,
              count |-> r.count + 1]

convert_admonitions(content) == AdmonSub(content, 1)

\* ------------------------------------------------------------------------
\* Stage 3: convert_numbered_lists
\* ------------------------------------------------------------------------

OrderMarker == <<"l","o","g","s","e","q",".","o","r","d","e","r","-","l","i","s","t","-","t","y","p","e",":",":"," ","n","u","m","b","e","r">>

\* f"{n}" for a natural number
RECURSIVE Dec(_)
Dec(n) ==
  LET d == <<"0","1","2","3","4","5","6","7","8","9">>[(n % 10) + 1]
  IN IF n < 10 THEN <<d>> ELSE Dec(n \div 10) \o <<d>>

\* re.match(r'^(\t*)-\s+', line): tabs, a dash, at least one whitespace
BulletIndent(line) == SkipSet(line, 1, {TAB}) - 1
BulletMatch(line) ==
  LET t == SkipSet(line, 1, {TAB})
  IN /\ t <= Len(line)
     /\ line[t] = "-"
     /\ SkipSet(line, t + 1, WS) > t + 1
\* group(2) of r'^(\t*)-\s+(.*)$'
BulletText(line) ==
  SubSeq(line, SkipSet(line, SkipSet(line, 1, {TAB}) + 1, WS), Len(line))

\* {k: v for k, v in list_counter.items() if k <= level} (strict: k < level)
PruneCounters(list_counter, level, strict) ==
  [k \in {j \in DOMAIN list_counter : IF strict THEN j < level ELSE j <= level}
     |-> list_counter[k]]

\* the while loop of lines 173-211
RECURSIVE NumberedScan(_, _, _, _)
NumberedScan(lines, i, new_lines, list_counter) ==
  IF i > Len(lines) THEN new_lines
  ELSE
    LET line == lines[i]
        has_number_prop == i + 1 <= Len(lines) /\ Contains(lines[i + 1], OrderMarker)
        keep == IF Contains(line, OrderMarker) THEN new_lines
                ELSE Append(new_lines, line)
    IN IF has_number_prop
         THEN IF BulletMatch(line)
                THEN LET level == BulletIndent(line)
                         pruned == PruneCounters(list_counter, level, FALSE)
                         n == (IF level \in DOMAIN pruned THEN pruned[level] ELSE 0) + 1
                         counter == [k \in DOMAIN pruned \cup {level} |->
                                       IF k = level THEN n ELSE pruned[k]]
                     IN NumberedScan(lines, i + 2,
                          Append(new_lines,
                                 SubSeq(line, 1, level) \o Dec(n) \o <<"."," ">>
                                 \o BulletText(line)),
                          counter)
                ELSE NumberedScan(lines, i + 1, keep, list_counter)
         ELSE IF BulletMatch(line)
                THEN NumberedScan(lines, i + 1, keep,
                       PruneCounters(list_counter, BulletIndent(line), TRUE))
                ELSE NumberedScan(lines, i + 1, keep, list_counter)

convert_numbered_lists(content) ==
  JoinNL(NumberedScan(SplitOn(content, NL), 1, <<>>, <<>>))

\* ------------------------------------------------------------------------
\* Stage 4: convert_block_ids
\* ------------------------------------------------------------------------

\* {36} of the identifier patterns (lines 229, 242, 250)
IdLen == 36
\* block_id[:8] (line 232)
ShortIdLen == 8

\* re.match(r'^(\s*)id::\s*([a-f0-9-]{36})$', line)
IdLineStart(line) ==
  SkipSet(line, SkipSet(line, 1, WS) + Len(<<"i","d",":",":">>), WS)
\* the pattern without its {36} and its character class
IdLineMatch_any_identifier(line) ==
  StartsAt(line, SkipSet(line, 1, WS), <<"i","d",":",":">>)

IdLineMatch(line) ==
  LET w == SkipSet(line, 1, WS)
  IN /\ StartsAt(line, w, <<"i","d",":",":">>)
     /\ Len(line) = IdLineStart(line) + IdLen - 1
     /\ \A k \in IdLineStart(line)..Len(line) : line[k] \in IdCh

\* the loop of lines 228-235
RECURSIVE BlockIdScan(_, _, _)
BlockIdScan(lines, i, new_lines) ==
  IF i > Len(lines) THEN new_lines
  ELSE IF IdLineMatch(lines[i]) /\ Len(new_lines) > 0
    THEN LET short_id == SubSeq(lines[i], IdLineStart(lines[i]),
                                IdLineStart(lines[i]) + ShortIdLen - 1)
             last == Len(new_lines)
         IN BlockIdScan(lines, i + 1,
              [new_lines EXCEPT ![last] = RStrip(@) \o <<" ","^">> \o short_id])
    ELSE BlockIdScan(lines, i + 1, Append(new_lines, lines[i]))

convert_block_ids(content) ==
  JoinNL(BlockIdScan(SplitOn(content, NL), 1, <<>>))

\* ------------------------------------------------------------------------
\* Stage 5: handle_block_references
\* ------------------------------------------------------------------------

\* r'\(\([a-f0-9-]{36}\)\)' at position p
RefMatch(s, p) ==
  /\ StartsAt(s, p, <<"(","(">>)
  /\ p + 2 + IdLen + 1 <= Len(s)
  /\ \A k \in (p + 2)..(p + 1 + IdLen) : s[k] \in IdCh
  /\ StartsAt(s, p + 2 + IdLen, <<")",")">>)
RefLen == 2 + IdLen + 2

\* a marker that leaves the reference out
flag_ref_without_token(ref) == <<"<","!","-","-"," ","T","O","D","O",":"," ","F","i","x"," ","b","l","o","c","k"," ","r","e","f","e","r","e","n","c","e"," ","-","-",">">>

\* flag_ref (lines 245-248)
flag_ref(ref) == <<"<","!","-","-"," ","T","O","D","O",":"," ","F","i","x"," ","b","l","o","c","k"," ","r","e","f","e","r","e","n","c","e",":"," ">> \o ref \o <<" ","-","-",">">>

\* re.sub with '' (remove) or flag_ref (flag): [text, count], count the
\* number of calls of flag_ref
RECURSIVE RefSub(_, _, _)
RefSub(s, p, mode) ==
  LET qs == {q \in p..Len(s) : RefMatch(s, q)}
  IN IF qs = {} THEN [text |-> SubSeq(s, p, Len(s)), count |-> 0]
     ELSE LET q == Min(qs)
              r == RefSub(s, q + RefLen, mode)
          IN IF mode = "remove"
               THEN [text |-> SubSeq(s, p, q - 1) \o r.text, count |-> r.count]
               ELSE [text |-> SubSeq(s, p, q - 1)
                              \o flag_ref(SubSeq(s, q, q + RefLen - 1)) \o r.text,
                     count |-> r.count + 1]

handle_block_references(content, block_refs_mode) ==
  RefSub(content, 1, block_refs_mode)

\* ------------------------------------------------------------------------
\* Stage 6: convert_tasks
\* ------------------------------------------------------------------------

\* TASK_MAP (lines 34-42) in insertion order
TASK_MAP ==
  << <<<<"T","O","D","O">>, <<"["," ","]">>>>, <<<<"D","O","I","N","G">>, <<"[","/","]">>>>, <<<<"N","O","W">>, <<"[","/","]">>>>,
     <<<<"L","A","T","E","R">>, <<"["," ","]">>>>, <<<<"D","O","N","E">>, <<"[","x","]">>>>, <<<<"W","A","I","T","I","N","G">>, <<"[","!","]">>>>,
     <<<<"C","A","N","C","E","L","L","E","D">>, <<"[","-","]">>>> >>

\* ^ under re.MULTILINE: the start of the text or just after a newline
LineStart(s, p) == p = 1 \/ s[p - 1] = NL

\* rf'^(\s*-\s+){state}\s+' at position p: [ok, g1end, end] with group 1
\* s[p..g1end-1] and the match s[p..end-1].  \s also matches newlines.
TaskMatch(s, p, state) ==
  IF ~LineStart(s, p) THEN [ok |-> FALSE]
  ELSE
    LET d == SkipSet(s, p, WS)
    IN IF ~(d <= Len(s) /\ s[d] = "-") THEN [ok |-> FALSE]
       ELSE
         LET k == SkipSet(s, d + 1, WS)
         IN IF ~(k > d + 1 /\ StartsAt(s, k, state)) THEN [ok |-> FALSE]
            ELSE
              LET e == SkipSet(s, k + Len(state), WS)
              IN IF e = k + Len(state) THEN [ok |-> FALSE]
                 ELSE [ok |-> TRUE, g1end |-> k, end |-> e]

\* re.sub(pattern, rf'\1{obsidian_state} ', content, flags=re.MULTILINE)
RECURSIVE TaskSub(_, _, _, _)
TaskSub(s, p, state, box) ==
  LET qs == {q \in p..Len(s) : TaskMatch(s, q, state).ok}
  IN IF qs = {} THEN SubSeq(s, p, Len(s))
     ELSE LET m == TaskMatch(s, Min(qs), state)
          IN SubSeq(s, p, m.g1end - 1) \o box \o <<SP>>
             \o TaskSub(s, m.end, state, box)

\* the loop of lines 254-262 from entry i of TASK_MAP on: [text, count],
\* count what is added to stats["tasks_converted"]
RECURSIVE TaskLoop(_, _)
TaskLoop(content, i) ==
  IF i > Len(TASK_MAP) THEN [text |-> content, count |-> 0]
  ELSE LET logseq_state == TASK_MAP[i][1]
           new == TaskSub(content, 1, logseq_state, TASK_MAP[i][2])
           r == TaskLoop(new, i + 1)
       IN [text |-> r.text,
           count |-> r.count + (IF Contains(new, logseq_state) THEN 1 ELSE 0)]

convert_tasks(content) == TaskLoop(content, 1)

\* ------------------------------------------------------------------------
\* Stages 7-10: remove_collapsed_property, remove_logbook_blocks,
\* clean_image_sizing, convert_embeds
\* ------------------------------------------------------------------------

\* r'collapsed::\s*true\s*$' from position p of a line
CollapsedTail(line, p) ==
  /\ StartsAt(line, p, <<"c","o","l","l","a","p","s","e","d",":",":">>)
  /\ LET t == SkipSet(line, p + Len(<<"c","o","l","l","a","p","s","e","d",":",":">>), WS)
     IN /\ StartsAt(line, t, <<"t","r","u","e">>)
        /\ SkipSet(line, t + Len(<<"t","r","u","e">>), WS) = Len(line) + 1

\* r'^\s*collapsed::\s*true\s*$' or r'^\s*-\s+collapsed::\s*true\s*$'
CollapsedLine(line) ==
  LET w == SkipSet(line, 1, WS)
  IN \/ CollapsedTail(line, w)
     \/ /\ w <= Len(line)
        /\ line[w] = "-"
        /\ SkipSet(line, w + 1, WS) > w + 1
        /\ CollapsedTail(line, SkipSet(line, w + 1, WS))

remove_collapsed_property(content) ==
  JoinNL(SelectSeq(SplitOn(content, NL), LAMBDA line : ~CollapsedLine(line)))

\* r':LOGBOOK:.*?:END:' with DOTALL at position p: the end of the match, or 0
LogbookEnd(s, p) ==
  IF ~StartsAt(s, p, <<":","L","O","G","B","O","O","K",":">>) THEN 0
  ELSE LET es == {e \in (p + Len(<<":","L","O","G","B","O","O","K",":">>))..Len(s) : StartsAt(s, e, <<":","E","N","D",":">>)}
       IN IF es = {} THEN 0
          ELSE (CHOOSE e \in es : \A k \in es : e <= k) + Len(<<":","E","N","D",":">>)

RECURSIVE LogbookSub(_, _)
LogbookSub(s, p) ==
  LET qs == {q \in p..Len(s) : LogbookEnd(s, q) > 0}
  IN IF qs = {} THEN SubSeq(s, p, Len(s))
     ELSE SubSeq(s, p, Min(qs) - 1) \o LogbookSub(s, LogbookEnd(s, Min(qs)))

remove_logbook_blocks(content) == LogbookSub(content, 1)

\* r'\s+\d+' from position p: the end of the match, or 0
WsDigits(s, p) ==
  LET d == SkipSet(s, p, WS)
      e == SkipSet(s, d, Digit)
  IN IF d > p /\ e > d THEN e ELSE 0

\* r'\{:height\s+\d+,?\s*:width\s+\d+\}' at position p: the end, or 0
ImageSizeEnd(s, p) ==
  IF ~StartsAt(s, p, <<"{",":","h","e","i","g","h","t">>) THEN 0
  ELSE
    LET h == WsDigits(s, p + Len(<<"{",":","h","e","i","g","h","t">>))
    IN IF h = 0 THEN 0
       ELSE
         LET c == IF h <= Len(s) /\ s[h] = "," THEN h + 1 ELSE h
             w == SkipSet(s, c, WS)
         IN IF ~StartsAt(s, w, <<":","w","i","d","t","h">>) THEN 0
            ELSE LET v == WsDigits(s, w + Len(<<":","w","i","d","t","h">>))
                 IN IF v > 0 /\ v <= Len(s) /\ s[v] = "}" THEN v + 1 ELSE 0

RECURSIVE ImageSub(_, _)
ImageSub(s, p) ==
  LET qs == {q \in p..Len(s) : ImageSizeEnd(s, q) > 0}
  IN IF qs = {} THEN SubSeq(s, p, Len(s))
     ELSE SubSeq(s, p, Min(qs) - 1) \o ImageSub(s, ImageSizeEnd(s, Min(qs)))

clean_image_sizing(content) == ImageSub(content, 1)

\* r'\{\{embed\s+\[\[([^\]]+)\]\]\}\}' at position p: [ok, target, end]
EmbedMatch(s, p) ==
  IF ~StartsAt(s, p, <<"{","{","e","m","b","e","d">>) THEN [ok |-> FALSE]
  ELSE
    LET w == SkipSet(s, p + Len(<<"{","{","e","m","b","e","d">>), WS)
    IN IF ~(w > p + Len(<<"{","{","e","m","b","e","d">>) /\ StartsAt(s, w, <<"[","[">>))
         THEN [ok |-> FALSE]
         ELSE
           LET b == w + 2
               c == CHOOSE j \in b..(Len(s) + 1) :
                      /\ \A k \in b..(j - 1) : s[k] # "]"
                      /\ (j = Len(s) + 1 \/ s[j] = "]")
           IN IF c > b /\ StartsAt(s, c, <<"]","]","}","}">>)
                THEN [ok |-> TRUE, target |-> SubSeq(s, b, c - 1),
                      end |-> c + Len(<<"]","]","}","}">>)]
                ELSE [ok |-> FALSE]

RECURSIVE EmbedSub(_, _)
EmbedSub(s, p) ==
  LET qs == {q \in p..Len(s) : EmbedMatch(s, q).ok}
  IN IF qs = {} THEN SubSeq(s, p, Len(s))
     ELSE LET m == EmbedMatch(s, Min(qs))
          IN SubSeq(s, p, Min(qs) - 1) \o <<"!","[","[">> \o m.target \o <<"]","]">>
             \o EmbedSub(s, m.end)

convert_embeds(content) == EmbedSub(content, 1)

\* ------------------------------------------------------------------------
\* Stages 11-12: flatten_top_level_bullets, whitespace clean-up
\* ------------------------------------------------------------------------

\* re.sub(r'\n{3,}', '\n\n', content)
RECURSIVE CollapseNewlines(_, _)
CollapseNewlines(s, p) ==
  LET qs == {q \in p..Len(s) : StartsAt(s, q, <<NL, NL, NL>>)}
  IN IF qs = {} THEN SubSeq(s, p, Len(s))
     ELSE SubSeq(s, p, Min(qs) - 1) \o <<NL, NL>>
          \o CollapseNewlines(s, SkipSet(s, Min(qs), {NL}))

\* re.match(r'^-\s+', line)
TopBullet(line) ==
  Len(line) >= 2 /\ line[1] = "-" /\ line[2] \in WS

\* the loop without the test of in_flattened_section (line 308)
RECURSIVE FlattenScan_ignores_section(_, _, _, _)
FlattenScan_ignores_section(lines, i, new_lines, in_flattened_section) ==
  IF i > Len(lines) THEN new_lines
  ELSE IF TopBullet(lines[i])
    THEN FlattenScan_ignores_section(lines, i + 1,
           new_lines \o <<SubSeq(lines[i], SkipSet(lines[i], 2, WS), Len(lines[i])),
                          <<>>>>,
           TRUE)
  ELSE IF StartsAt(lines[i], 1, <<TAB>>)
    THEN FlattenScan_ignores_section(lines, i + 1,
           Append(new_lines, Tail(lines[i])), in_flattened_section)
  ELSE FlattenScan_ignores_section(lines, i + 1,
         Append(new_lines, lines[i]), in_flattened_section)

\* the loop of lines 300-312
RECURSIVE FlattenScan(_, _, _, _)
FlattenScan(lines, i, new_lines, in_flattened_section) ==
  IF i > Len(lines) THEN new_lines
  ELSE IF TopBullet(lines[i])
    THEN FlattenScan(lines, i + 1,
           new_lines \o <<SubSeq(lines[i], SkipSet(lines[i], 2, WS), Len(lines[i])),
                          <<>>>>,
           TRUE)
  ELSE IF in_flattened_section /\ StartsAt(lines[i], 1, <<TAB>>)
    THEN FlattenScan(lines, i + 1, Append(new_lines, Tail(lines[i])), TRUE)
  ELSE FlattenScan(lines, i + 1, Append(new_lines, lines[i]), in_flattened_section)

flatten_top_level_bullets(content) ==
  CollapseNewlines(JoinNL(FlattenScan(SplitOn(content, NL), 1, <<>>, FALSE)), 1)

\* lines 345-346
CleanWhitespace(content) ==
  Strip(CollapseNewlines(content, 1)) \o <<NL>>

\* ------------------------------------------------------------------------
\* Destination paths: convert_journal_filename, process_namespace_path
\* ------------------------------------------------------------------------

\* s.replace(old, new) for a one-character new
RECURSIVE ReplaceLit(_, _, _)
ReplaceLit(s, old, new) ==
  LET qs == {q \in 1..Len(s) : StartsAt(s, q, old)}
  IN IF qs = {} THEN s
     ELSE SubSeq(s, 1, Min(qs) - 1) \o new
          \o ReplaceLit(SubSeq(s, Min(qs) + Len(old), Len(s)), old, new)

AllDigits(s, a, b) == \A k \in a..b : s[k] \in Digit

\* re.match(r'(\d{4})_(\d{2})_(\d{2})\.md$', filename); $ also matches
\* before a final newline
JournalMatch(filename) ==
  /\ Len(filename) >= 13
  /\ AllDigits(filename, 1, 4) /\ filename[5] = "_"
  /\ AllDigits(filename, 6, 7) /\ filename[8] = "_"
  /\ AllDigits(filename, 9, 10)
  /\ StartsAt(filename, 11, <<".","m","d">>)
  /\ (Len(filename) = 13 \/ (Len(filename) = 14 /\ filename[14] = NL))

convert_journal_filename(filename) ==
  IF JournalMatch(filename)
    THEN SubSeq(filename, 1, 4) \o <<"-">> \o SubSeq(filename, 6, 7) \o <<"-">>
         \o SubSeq(filename, 9, 10) \o <<".","m","d">>
    ELSE filename

\* pathlib: Path(text) as [abs, parts]; empty and "." segments are dropped
PathOf(t) ==
  [abs |-> StartsAt(t, 1, <<"/">>),
   parts |-> SelectSeq(SplitOn(t, "/"), LAMBDA x : x # <<>> /\ x # <<".">>)]

\* pathlib: a / b
PathJoin(a, b) ==
  IF b.abs THEN b ELSE [abs |-> a.abs, parts |-> a.parts \o b.parts]

\* decoded.rsplit(".", 1)
RSplitDot(t) ==
  LET ds == {q \in 1..Len(t) : t[q] = "."}
  IN IF ds = {} THEN <<t>>
     ELSE LET q == CHOOSE m \in ds : \A k \in ds : k <= m
          IN <<SubSeq(t, 1, q - 1), SubSeq(t, q + 1, Len(t))>>

\* "/".join(parts)
RECURSIVE JoinSlash(_)
JoinSlash(parts) ==
  IF Len(parts) = 0 THEN <<>>
  ELSE IF Len(parts) = 1 THEN parts[1]
  ELSE parts[1] \o <<"/">> \o JoinSlash(Tail(parts))

\* lines 372-385: the path relative to <output>/pages
process_namespace_path(filename, namespaces_to_folders) ==
  LET decoded == ReplaceLit(ReplaceLit(filename, <<"%","2","F">>, <<"/">>), <<"%","2","f">>, <<"/">>)
      parts == RSplitDot(decoded)
  IN IF namespaces_to_folders /\ Contains(decoded, <<"/">>) /\ Len(parts) = 2
       THEN LET path_parts == SplitOn(parts[1], "/")
                n == Len(path_parts)
            IN PathJoin(PathOf(JoinSlash(SubSeq(path_parts, 1, n - 1))),
                        PathOf(path_parts[n] \o <<".">> \o parts[2]))
       ELSE PathOf(ReplaceLit(decoded, <<"/">>, <<"-">>))

\* ------------------------------------------------------------------------
\* The conversion session: state
\* ------------------------------------------------------------------------

VARIABLES
  pc,      \* position in migrate(), or in the single-stage drivers below
  cfg,     \* the constructor's options (lines 55-62)
  stats,   \* self.stats (lines 64-73)
  before,  \* self.stats as it was when the current operation started
  src,     \* the source graph: the files glob yields, in order, and assets
  idx,     \* migrate(): index in src.files of the next file to convert
  fs,      \* the output side of the filesystem
  input,   \* single-stage drivers: the text given to the stage
  text,    \* single-stage drivers: the current text, or the path returned
  keys     \* single-stage drivers: the property keys returned by stage 1

vars == <<pc, cfg, stats, before, src, idx, fs, input, text, keys>>

\* self.stats after __init__ (lines 64-73)
Stats0 ==
  [files_processed |-> 0, files_skipped |-> 0, properties_converted |-> 0,
   admonitions_converted |-> 0, block_refs_flagged |-> 0, tasks_converted |-> 0,
   errors |-> <<>>, warnings |-> <<>>]

\* ------------------------------------------------------------------------
\* convert_file
\* ------------------------------------------------------------------------

\* lines 327-346: the stages in order.  Each Stage operator takes the
\* results of the stages before it; the counts are what the stages add to
\* self.stats on the way.

\* lines 336-346: stages 7 to 12 on the text the task stage returns
StagesAfterTasks(content, c) ==
  CleanWhitespace(
    IF c.flatten_top_level
      THEN flatten_top_level_bullets(
             convert_embeds(clean_image_sizing(remove_logbook_blocks(
               remove_collapsed_property(content)))))
      ELSE convert_embeds(clean_image_sizing(remove_logbook_blocks(
             remove_collapsed_property(content)))))

\* line 335 on
StageTasks(s1, s2, s5, s6, c) ==
  [text |-> StagesAfterTasks(s6.text, c),
   properties |-> Len(s1.keys),
   admonitions |-> s2.count,
   block_refs |-> s5.count,
   tasks |-> s6.count]

\* line 334 on
StageRefs(s1, s2, s5, c) == StageTasks(s1, s2, s5, convert_tasks(s5.text), c)

\* lines 331-333 on
StageAdmonitions(s1, s2, c) ==
  StageRefs(s1, s2,
            handle_block_references(
              convert_block_ids(convert_numbered_lists(s2.text)),
              c.block_refs_mode),
            c)

\* line 327 on
StageProperties(s1, c) == StageAdmonitions(s1, convert_admonitions(s1.text), c)

Pipeline(content, c) ==
  StageProperties(convert_properties_to_frontmatter(content), c)

\* self.stats["errors"].append(f"{source_file}: {str(e)}") (line 361)
RecordError(st, file, what) ==
  [st EXCEPT !.errors = Append(@, [file |-> <<file.dir, file.name>>, error |-> what])]

\* dest_file.parent.mkdir(...); dest_file.write_text(content) (lines 354-355)
WriteFile(f, dest, content) ==
  [f EXCEPT !.outdir = TRUE,
            !.files = {w \in @ : w.dest # dest} \cup {[dest |-> dest, content |-> content]}]

\* the counters of self.stats after the stages ran (lines 327-339)
AddCounts(st, r) ==
  [st EXCEPT !.properties_converted = @ + r.properties,
             !.admonitions_converted = @ + r.admonitions,
             !.block_refs_flagged = @ + r.block_refs,
             !.tasks_converted = @ + r.tasks]

\* FinishFile without the dry_run return of lines 348-351
FinishFile_ignores_dry_run(st1, f, file, dest, c, r) ==
  IF ~file.writable
    THEN [stats |-> RecordError(st1, file, "write"), fs |-> f,
          result |-> FALSE, raised |-> FALSE]
    ELSE [stats |-> [st1 EXCEPT !.files_processed = @ + 1],
          fs |-> WriteFile(f, dest, r.text),
          result |-> TRUE, raised |-> FALSE]

\* lines 348-358: after the stages, r their result and st1 the statistics
FinishFile(st1, f, file, dest, c, r) ==
  IF c.dry_run
    THEN [stats |-> st1, fs |-> f, result |-> TRUE, raised |-> FALSE]
  ELSE IF ~file.writable
    THEN [stats |-> RecordError(st1, file, "write"), fs |-> f,
          result |-> FALSE, raised |-> FALSE]
  ELSE [stats |-> [st1 EXCEPT !.files_processed = @ + 1],
        fs |-> WriteFile(f, dest, r.text),
        result |-> TRUE, raised |-> FALSE]

\* lines 326-346
TransformFile(st, f, file, dest, c, r) ==
  FinishFile(AddCounts(st, r), f, file, dest, c, r)

\* convert_file without the try/except of lines 322 and 360: a failing read
\* leaves the method as an exception
convert_file_uncaught(st, f, file, dest, c) ==
  IF ~file.readable
    THEN [stats |-> st, fs |-> f, result |-> FALSE, raised |-> TRUE]
    ELSE TransformFile(st, f, file, dest, c, Pipeline(file.content, c))

\* lines 320-362.  file.readable: read_text succeeds; file.writable: mkdir and
\* write_text succeed.  raised: an exception leaves convert_file.
convert_file(st, f, file, dest, c) ==
  IF ~file.readable
    THEN [stats |-> RecordError(st, file, "read"), fs |-> f,
          result |-> FALSE, raised |-> FALSE]
    ELSE TransformFile(st, f, file, dest, c, Pipeline(file.content, c))

\* ------------------------------------------------------------------------
\* migrate
\* ------------------------------------------------------------------------

\* lines 399-400 and 408-409: the destination below self.output
DestOf(file, c) ==
  IF file.dir = "pages"
    THEN PathJoin(PathOf(<<"p","a","g","e","s">>),
                  process_namespace_path(file.name, c.namespaces_to_folders))
    ELSE PathJoin(PathOf(c.journals_folder),
                  PathOf(convert_journal_filename(file.name)))

\* lines 389-392: self.output.mkdir unless dry_run
MigrateStart ==
  /\ pc = "start"
  /\ fs' = IF cfg.dry_run THEN fs ELSE [fs EXCEPT !.outdir = TRUE]
  /\ pc' = IF Len(src.files) = 0 THEN "assets" ELSE "files"
  /\ UNCHANGED <<cfg, stats, before, src, idx, input, text, keys>>

\* the session after convert_file returned r, or raised
MigrateStep(r) ==
  /\ stats' = r.stats
  /\ fs' = r.fs
  /\ pc' = IF r.raised THEN "aborted"
           ELSE IF idx = Len(src.files) THEN "assets" ELSE "files"

\* lines 398-401 and 407-410: one iteration of the pages or journals loop
MigrateFile ==
  /\ pc = "files"
  /\ idx <= Len(src.files)
  /\ MigrateStep(convert_file(stats, fs, src.files[idx],
                               DestOf(src.files[idx], cfg), cfg))
  /\ idx' = idx + 1
  /\ UNCHANGED <<cfg, before, src, input, text, keys>>

\* lines 413-421: copy the assets and return self.stats
MigrateAssets ==
  /\ pc = "assets"
  /\ fs' = IF src.assets /\ ~cfg.dry_run
             THEN [fs EXCEPT !.assets = "copied"]
             ELSE fs
  /\ pc' = "done"
  /\ UNCHANGED <<cfg, stats, before, src, idx, input, text, keys>>

\* ------------------------------------------------------------------------
\* The batch run: bounded source graphs and the specification
\* ------------------------------------------------------------------------

\* most files in the source graph
MaxFiles == 2

\* two block identifiers, and one a character short
Uuid1 == <<"1","2","3","e","4","5","6","7","-","e","8","9","b","-","1","2","d","3","-","a","4","5","6","-","4","2","6","6","1","4","1","7","4","0","0","0">>
Uuid2 == <<"a","b","c","d","e","f","0","1","-","0","0","0","0","-","1","1","1","1","-","2","2","2","2","-","3","3","3","3","3","3","3","3","3","3","3","3">>
ShortUuid == SubSeq(Uuid1, 1, IdLen - 1)

\* the files a source graph is drawn from: pages/ and journals/ entries
FilePool ==
  { [dir |-> "pages", name |-> <<"N","o","t","e",".","m","d">>,
     content |-> <<"t","i","t","l","e",":",":"," ","T",NL,"t","a","g","s",":",":"," ","a",","," ","b",NL,"-"," ","T","O","D","O"," ","x"," ","T","O","D","O">>],
    [dir |-> "pages", name |-> <<"A","%","2","F","B",".","m","d">>,
     content |-> <<"#","+","B","E","G","I","N","_","T","I","P",NL,"h","i",NL,"#","+","E","N","D","_","T","I","P",NL,"s","e","e"," ","(","(">> \o Uuid1 \o <<")",")">>],
    [dir |-> "pages", name |-> <<"A","-","B",".","m","d">>,
     content |-> <<"-"," ","a",NL," "," ","i","d",":",":"," ">> \o Uuid1],
    [dir |-> "journals", name |-> <<"2","0","2","4","_","0","1","_","0","5",".","m","d">>,
     content |-> <<"-"," ","D","O","N","E"," ","y"," ","D","O","N","E",NL,"-"," ","L","A","T","E","R"," ","z">>] }

\* each with what the operating system does on read and on write
Outcomes ==
  { [readable |-> TRUE, writable |-> TRUE],
    [readable |-> FALSE, writable |-> TRUE],
    [readable |-> TRUE, writable |-> FALSE] }

SourceFiles ==
  { [dir |-> p.dir, name |-> p.name, content |-> p.content,
     readable |-> o.readable, writable |-> o.writable] :
    p \in FilePool, o \in Outcomes }

\* what the two globs of migrate() yield: distinct names, pages first, in
\* any order within a directory
SourceQueues ==
  { q \in UNION {[1..n -> SourceFiles] : n \in 0..MaxFiles} :
      /\ \A i, j \in 1..Len(q) : i # j => q[i].name # q[j].name
      /\ \A i, j \in 1..Len(q) :
           (q[i].dir = "journals" /\ q[j].dir = "pages") => i > j }

Configs ==
  { [dry_run |-> d, block_refs_mode |-> o.mode, flatten_top_level |-> o.flat,
     namespaces_to_folders |-> o.flat, journals_folder |-> <<"D","a","i","l","y">>] :
    d \in BOOLEAN,
    o \in {[mode |-> "flag", flat |-> FALSE], [mode |-> "remove", flat |-> TRUE]} }

\* the output side before the run: nothing there, or an earlier vault
Filesystems ==
  { [outdir |-> FALSE, files |-> {}, assets |-> "absent"],
    [outdir |-> TRUE, files |-> {}, assets |-> "stale"] }

Init ==
  /\ pc = "start"
  /\ cfg \in Configs
  /\ stats = Stats0
  /\ before = Stats0
  /\ src \in {[files |-> q, assets |-> a] : q \in SourceQueues, a \in BOOLEAN}
  /\ idx = 1
  /\ fs \in Filesystems
  /\ input = <<>>
  /\ text = <<>>
  /\ keys = <<>>

Next == MigrateStart \/ MigrateFile \/ MigrateAssets

Spec == Init /\ [][Next]_vars

\* ------------------------------------------------------------------------
\* The batch run: properties
\* ------------------------------------------------------------------------

\* converting the file raises: the read fails, or the write of a real run
Fails(file) == ~file.readable \/ (~cfg.dry_run /\ ~file.writable)

SourcePath(file) == <<file.dir, file.name>>

\* the source paths of the failing files among the first n, in order
RECURSIVE FailedPaths(_)
FailedPaths(n) ==
  IF n = 0 THEN <<>>
  ELSE FailedPaths(n - 1) \o
       (IF Fails(src.files[n]) THEN <<SourcePath(src.files[n])>> ELSE <<>>)

\* C1: a file whose conversion raises does not abort the batch: the run is
\* never aborted, the error list names exactly the failing files handled so
\* far (one entry each, in order), the loops end only after every file was
\* handled, and a real run has written every file that did not fail.
BatchSurvivesFailure ==
  /\ pc # "aborted"
  /\ [i \in 1..Len(stats.errors) |-> stats.errors[i].file] = FailedPaths(idx - 1)
  /\ pc \in {"assets", "done"} => idx = Len(src.files) + 1
  /\ ~cfg.dry_run =>
       \A i \in 1..(idx - 1) :
         ~Fails(src.files[i]) =>
           \E w \in fs.files : w.dest = DestOf(src.files[i], cfg)

\* a finished real run whose first file failed and whose second was written
BatchSurvivesFailureWitness ==
  /\ pc = "done"
  /\ ~cfg.dry_run
  /\ Len(src.files) = 2
  /\ Fails(src.files[1])
  /\ ~Fails(src.files[2])
  /\ Len(stats.errors) = 1
  /\ \E w \in fs.files : w.dest = DestOf(src.files[2], cfg)

\* C2: in dry-run mode no step of the run changes the output side of the
\* filesystem: the output directory, the written files and the assets stay
\* as they were.
DryRunWritesNothing == [][cfg.dry_run => fs' = fs]_vars

\* a finished dry run over a graph with assets and a convertible file, on
\* top of an earlier vault
DryRunWritesNothingWitness ==
  /\ pc = "done"
  /\ cfg.dry_run
  /\ src.assets
  /\ fs.assets = "stale"
  /\ \E i \in 1..Len(src.files) : src.files[i].readable /\ src.files[i].writable
  /\ stats.properties_converted > 0

\* the counters of the statistics
Counters(st) ==
  <<st.files_processed, st.properties_converted, st.admonitions_converted,
    st.block_refs_flagged, st.tasks_converted>>

\* the statistics of a writing run over the first n files in which every
\* write succeeds
RECURSIVE RealRunStats(_)
RealRunStats(n) ==
  IF n = 0 THEN Stats0
  ELSE convert_file(RealRunStats(n - 1), fs,
                    [src.files[n] EXCEPT !.writable = TRUE],
                    DestOf(src.files[n], cfg),
                    [cfg EXCEPT !.dry_run = FALSE]).stats

\* C3: at the end of a dry run the counters equal those of the writing run
\* over the same files and configuration in which every write succeeds.
DryRunStatsAsIfWritten ==
  (pc = "done" /\ cfg.dry_run) =>
    Counters(stats) = Counters(RealRunStats(Len(src.files)))

\* C4: after a batch run files_skipped is the number of files whose
\* conversion raised, the number of entries of the error list.
SkippedCountsErrors ==
  pc = "done" => stats.files_skipped = Len(stats.errors)

\* ------------------------------------------------------------------------
\* Single stages: drivers that call one stage method of a session on a text
\* ------------------------------------------------------------------------

\* texts made of at most n chunks, and of one to n lines, of a vocabulary
ChunkTexts(vocabulary, n) ==
  {Concat(q) : q \in UNION {[1..k -> vocabulary] : k \in 0..n}}
LineTexts(vocabulary, n) ==
  {JoinNL(q) : q \in UNION {[1..k -> vocabulary] : k \in 1..n}}

\* the statistics of a new session, and of one that converted files before
UsedStats ==
  [Stats0 EXCEPT !.files_processed = 2, !.properties_converted = 3,
                 !.admonitions_converted = 4, !.block_refs_flagged = 5,
                 !.tasks_converted = 6]
StartStats == {Stats0, UsedStats}

DefaultConfig ==
  [dry_run |-> FALSE, block_refs_mode |-> "flag", flatten_top_level |-> FALSE,
   namespaces_to_folders |-> FALSE, journals_folder |-> <<"D","a","i","l","y">>]

\* a session about to call a stage on one of texts
StageInit(texts, configs, statistics) ==
  /\ pc = "start"
  /\ cfg \in configs
  /\ stats \in statistics
  /\ before = stats
  /\ src = [files |-> <<>>, assets |-> FALSE]
  /\ idx = 1
  /\ fs = [outdir |-> FALSE, files |-> {}, assets |-> "absent"]
  /\ input \in texts
  /\ text = input
  /\ keys = <<>>

\* --- stage 1 ---

MaxPropLines == 3

PropLines ==
  { <<"t","i","t","l","e",":",":"," ","M","y"," ","N","o","t","e">>, <<"t","a","g","s",":",":"," ","a",","," ","b"," ",",","c">>, <<"t","a","g","s",":",":"," ","x">>, <<"u","r","l",":",":"," ","a",":","b">>,
    <<"i","d",":",":"," ","7">>, <<"c","o","l","l","a","p","s","e","d",":",":"," ","t","r","u","e">>, <<"k",":",":">>, <<>>, <<"b","o","d","y"," ","t","e","x","t">> }

InitProperties ==
  StageInit(LineTexts(PropLines, MaxPropLines), {DefaultConfig}, {Stats0})

PropertiesDone(r) ==
  /\ text' = r.text
  /\ keys' = r.keys
  /\ pc' = "done"

ApplyProperties ==
  /\ pc = "start"
  /\ PropertiesDone(convert_properties_to_frontmatter(text))
  /\ UNCHANGED <<cfg, stats, before, src, idx, fs, input>>

SpecProperties == InitProperties /\ [][ApplyProperties]_vars

\* a set of positions in increasing order
RECURSIVE Ascending(_)
Ascending(S) ==
  IF S = {} THEN <<>> ELSE <<Min(S)>> \o Ascending(S \ {Min(S)})

\* a `key:: value` line: a key of word characters and hyphens, two colons
\* and a value; its key and its trimmed value
KeyLength(line) ==
  Cardinality({k \in 1..Len(line) : \A j \in 1..k : line[j] \in KeyCh})
IsPropertyLine(line) ==
  /\ KeyLength(line) >= 1
  /\ Len(line) >= KeyLength(line) + 3
  /\ line[KeyLength(line) + 1] = ":"
  /\ line[KeyLength(line) + 2] = ":"
LineKey(line) == SubSeq(line, 1, KeyLength(line))
LineValue(line) == Strip(SubSeq(line, KeyLength(line) + 3, Len(line)))

\* the length of the maximal run of property lines at the top
RunLength(lines) ==
  Cardinality({n \in 1..Len(lines) : \A i \in 1..n : IsPropertyLine(lines[i])})

\* the lines of the run that carry a property: the key is not reserved
Carrying(lines) ==
  {i \in 1..RunLength(lines) : LineKey(lines[i]) \notin ReservedKeys}
\* of these, the first line of each key, and the last line of the key of i
FirstOfKey(lines) ==
  {i \in Carrying(lines) :
     \A j \in Carrying(lines) : j < i => LineKey(lines[j]) # LineKey(lines[i])}
LastOfKey(lines, i) ==
  CHOOSE j \in Carrying(lines) :
    /\ LineKey(lines[j]) = LineKey(lines[i])
    /\ \A k \in Carrying(lines) :
         LineKey(lines[k]) = LineKey(lines[i]) => k <= j

\* the frontmatter text of one key and value, each line with its newline
RECURSIVE ListItems(_)
ListItems(items) ==
  IF Len(items) = 0 THEN <<>>
  ELSE <<" "," ","-"," ">> \o Strip(items[1]) \o <<NL>> \o ListItems(Tail(items))
EntryText(key, value) ==
  IF key \in ListKeys /\ Contains(value, <<",">>)
    THEN key \o <<":",NL>> \o ListItems(SplitOn(value, ","))
  ELSE IF Contains(value, <<":">>) \/ (Len(value) > 0 /\ value[1] = "[")
    THEN key \o <<":"," ","\"">> \o value \o <<"\"",NL>>
    ELSE key \o <<":"," ">> \o value \o <<NL>>

RECURSIVE EntriesText(_, _)
EntriesText(lines, firsts) ==
  IF Len(firsts) = 0 THEN <<>>
  ELSE EntryText(LineKey(lines[firsts[1]]),
                 LineValue(lines[LastOfKey(lines, firsts[1])]))
       \o EntriesText(lines, Tail(firsts))

\* what the claim says the stage returns for the lines of a text
FrontmatterOf(lines) ==
  (IF FirstOfKey(lines) = {} THEN <<>>
   ELSE <<"-","-","-",NL>> \o EntriesText(lines, Ascending(FirstOfKey(lines))) \o <<"-","-","-",NL>>)
  \o JoinNL(SubSeq(lines, RunLength(lines) + 1, Len(lines)))
KeysOf(lines, firsts) ==
  [i \in 1..Len(firsts) |-> LineKey(lines[firsts[i]])]

\* C6: the stage turns the maximal run of `key:: value` lines at the top
\* into a frontmatter block (one entry per key in order of first appearance,
\* reserved keys dropped, a list for a comma value under tags, alias or
\* aliases and a scalar otherwise), followed by every line from the first
\* non-matching line on, unchanged and in order.
PropertiesBecomeFrontmatter ==
  pc = "done" =>
    /\ text = FrontmatterOf(SplitOn(input, NL))
    /\ keys = KeysOf(SplitOn(input, NL), Ascending(FirstOfKey(SplitOn(input, NL))))

\* ------------------------------------------------------------------------
\* The admonition stage on its own
\* ------------------------------------------------------------------------

MaxAdmonChunks == 4
AdmonChunks ==
  { <<"#","+","B","E","G","I","N","_","T","I","P",NL>>, <<"#","+","b","e","g","i","n","_","F","o","o"," ",NL>>, <<"a",NL>>, <<" "," ","b"," ","c"," "," ",NL,NL>>,
    <<"#","+","E","N","D","_","T","I","P">>, <<"#","+","e","n","d","_","f","o","o",NL>>, <<"x">> }

InitAdmonitions ==
  StageInit(ChunkTexts(AdmonChunks, MaxAdmonChunks), {DefaultConfig}, {UsedStats})

AdmonitionsDone(r) ==
  /\ text' = r.text
  /\ stats' = [stats EXCEPT !.admonitions_converted = @ + r.count]
  /\ pc' = "done"

ApplyAdmonitions ==
  /\ pc = "start"
  /\ AdmonitionsDone(convert_admonitions(text))
  /\ UNCHANGED <<cfg, before, src, idx, fs, input, keys>>

SpecAdmonitions == InitAdmonitions /\ [][ApplyAdmonitions]_vars

\* A begin marker at p: "#+BEGIN_", a type name of word characters, optional
\* white space and a newline.  TypeEnd is the position after the type name,
\* BodyStart the position after the marker.
TypeEnd(s, p) ==
  Min({k \in (p + Len(BeginLit))..(Len(s) + 1) : k > Len(s) \/ s[k] \notin WordCh})
MarkerGap(s, p) ==
  {n \in TypeEnd(s, p)..Len(s) :
     s[n] = NL /\ \A k \in TypeEnd(s, p)..n : s[k] \in WS}
IsBeginMarker(s, p) ==
  /\ StartsAtI(s, p, BeginLit)
  /\ TypeEnd(s, p) > p + Len(BeginLit)
  /\ MarkerGap(s, p) # {}
TypeName(s, p) == SubSeq(s, p + Len(BeginLit), TypeEnd(s, p) - 1)
BodyStart(s, p) == 1 + CHOOSE n \in MarkerGap(s, p) : \A k \in MarkerGap(s, p) : k <= n

\* the matching end markers of the begin marker at p: "#+END_" and the same
\* type name, compared ignoring case, after the begin marker
EndMarkers(s, p) ==
  {e \in BodyStart(s, p)..Len(s) : StartsAtI(s, e, EndLit \o TypeName(s, p))}
IsRegion(s, p) == IsBeginMarker(s, p) /\ EndMarkers(s, p) # {}
RegionLast(s, p) == Min(EndMarkers(s, p)) + Len(EndLit) + Len(TypeName(s, p)) - 1
RegionBody(s, p) == SubSeq(s, BodyStart(s, p), Min(EndMarkers(s, p)) - 1)

\* the regions of a text, from the left, none inside an earlier one
RegionStarts(s) ==
  LET upto[p \in 0..Len(s)] ==
        IF p = 0 THEN {}
        ELSE IF IsRegion(s, p) /\ \A q \in upto[p - 1] : RegionLast(s, q) < p
          THEN upto[p - 1] \cup {p}
          ELSE upto[p - 1]
  IN upto[Len(s)]

\* the callout of a region: its translated type, then one quoted line per
\* non-blank body line, stripped
CalloutType(name) ==
  IF \E i \in 1..Len(ADMONITION_MAP) : ADMONITION_MAP[i][1] = UpperStr(name)
    THEN ADMONITION_MAP[CHOOSE i \in 1..Len(ADMONITION_MAP) :
                          ADMONITION_MAP[i][1] = UpperStr(name)][2]
    ELSE <<"n","o","t","e">>
RECURSIVE QuotedLines(_)
QuotedLines(lines) ==
  IF Len(lines) = 0 THEN <<>>
  ELSE (IF Strip(lines[1]) = <<>> THEN <<>>
        ELSE <<NL>> \o <<">"," ">> \o Strip(lines[1]))
       \o QuotedLines(Tail(lines))
CalloutOf(s, p) ==
  <<">"," ","[","!">> \o CalloutType(TypeName(s, p)) \o <<"]">>
  \o QuotedLines(SplitOn(RegionBody(s, p), NL))

\* the text with each region in starts (ascending) replaced by its callout
RECURSIVE WithCallouts(_, _, _)
WithCallouts(s, p, starts) ==
  IF Len(starts) = 0 THEN SubSeq(s, p, Len(s))
  ELSE SubSeq(s, p, starts[1] - 1) \o CalloutOf(s, starts[1])
       \o WithCallouts(s, RegionLast(s, starts[1]) + 1, Tail(starts))

\* C7: the admonition stage replaces every region between a begin marker of
\* type T and the first matching end marker of T (ignoring case) by a callout
\* of the translated type (note when T is not in the table) followed by one
\* quoted line per non-blank body line, stripped and in order; the counter of
\* converted admonitions grows by one per region; a begin marker without a
\* matching end marker stays as it is and is not counted.
AdmonitionsBecomeCallouts ==
  pc = "done" =>
    /\ text = WithCallouts(input, 1, Ascending(RegionStarts(input)))
    /\ stats.admonitions_converted =
         before.admonitions_converted + Cardinality(RegionStarts(input))
    /\ (RegionStarts(input) = {} => text = input)

\* a mixed-case region of an unmapped type with a body is converted and
\* counted on top of earlier conversions, next to a begin marker left alone
AdmonitionsBecomeCalloutsWitness ==
  /\ pc = "done"
  /\ input = <<"#","+","B","E","G","I","N","_","T","I","P",NL,"#","+","b","e","g","i","n","_","F","o","o"," ",NL," "," ","b"," ","c"," "," ",NL,NL,"#","+","e","n","d","_","f","o","o",NL>>
  /\ text = <<"#","+","B","E","G","I","N","_","T","I","P",NL,">"," ","[","!","n","o","t","e","]",NL,">"," ","b"," ","c",NL>>
  /\ before.admonitions_converted = 4
  /\ stats.admonitions_converted = 5

\* ------------------------------------------------------------------------
\* The block-identifier stage on its own
\* ------------------------------------------------------------------------

MaxIdLines == 3
IdLines ==
  { <<"-"," ","a">>, <<"-"," ","b"," "," ">>, <<TAB>> \o <<"i","d",":",":"," ">> \o Uuid1, <<"i","d",":",":">> \o Uuid2,
    <<"i","d",":",":"," ">> \o ShortUuid, <<>> }

InitBlockIds == StageInit(LineTexts(IdLines, MaxIdLines), {DefaultConfig}, {Stats0})

ApplyBlockIds ==
  /\ pc = "start"
  /\ text' = convert_block_ids(text)
  /\ pc' = "done"
  /\ UNCHANGED <<cfg, stats, before, src, idx, fs, input, keys>>

SpecBlockIds == InitBlockIds /\ [][ApplyBlockIds]_vars

\* an identifier line: optional indentation, "id::", optional white space and
\* an identifier of exactly 36 lowercase hex digits and hyphens
IsIdLine(line) ==
  \E w, g \in 0..Len(line) :
    /\ w + Len(<<"i","d",":",":">>) + g + IdLen = Len(line)
    /\ \A k \in 1..w : line[k] \in WS
    /\ SubSeq(line, w + 1, w + Len(<<"i","d",":",":">>)) = <<"i","d",":",":">>
    /\ \A k \in (w + Len(<<"i","d",":",":">>) + 1)..(w + Len(<<"i","d",":",":">>) + g) : line[k] \in WS
    /\ \A k \in (Len(line) - IdLen + 1)..Len(line) : line[k] \in IdCh
\* a space, a caret and the first 8 characters of the identifier of the line
AnchorOf(line) ==
  <<" ","^">> \o SubSeq(line, Len(line) - IdLen + 1, Len(line) - IdLen + ShortIdLen)

\* the identifier lines that have a preceding output line (the first line of
\* a text has none, every later line has), and the lines that stay
Relocated(lines) == {i \in 2..Len(lines) : IsIdLine(lines[i])}
Staying(lines) == (1..Len(lines)) \ Relocated(lines)

\* the anchors of the identifier lines that follow each other from line i on
RECURSIVE AnchorsFrom(_, _)
AnchorsFrom(lines, i) ==
  IF i \in Relocated(lines)
    THEN AnchorOf(lines[i]) \o AnchorsFrom(lines, i + 1)
    ELSE <<>>

\* the text of the staying lines, each made by outline from its position
JoinStaying(lines, staying, outline(_)) ==
  JoinNL([k \in 1..Len(staying) |-> outline(staying[k])])

\* C8 (as stated): every identifier line with a preceding output line is
\* removed and its anchor is appended to the end of that preceding line as
\* it stands; every other line is unchanged and in order.
BlockIdsAppendedToLine ==
  pc = "done" =>
    LET lines == SplitOn(input, NL)
        outline(i) == lines[i] \o AnchorsFrom(lines, i + 1)
    IN text = JoinStaying(lines, Ascending(Staying(lines)), outline)

\* C8 (amended): every identifier line with a preceding output line is
\* removed and its anchor is appended to that preceding line after the
\* line's trailing white space is removed; a line followed by no identifier
\* line is unchanged, trailing white space included, and the order is kept.
BlockIdsAppendedAfterTrim ==
  pc = "done" =>
    LET lines == SplitOn(input, NL)
        outline(i) == IF i + 1 \in Relocated(lines)
                        THEN RStrip(lines[i]) \o AnchorsFrom(lines, i + 1)
                        ELSE lines[i]
    IN text = JoinStaying(lines, Ascending(Staying(lines)), outline)

\* two identifier lines move onto a line that ends in white space
BlockIdsAppendedAfterTrimWitness ==
  /\ pc = "done"
  /\ input = <<"-"," ","b"," "," ",NL>> \o <<TAB>> \o <<"i","d",":",":"," ">> \o Uuid1 \o <<NL,"i","d",":",":">> \o Uuid2
  /\ text = <<"-"," ","b"," ","^","1","2","3","e","4","5","6","7"," ","^","a","b","c","d","e","f","0","1">>

\* ------------------------------------------------------------------------
\* The block-reference stage on its own
\* ------------------------------------------------------------------------

MaxRefChunks == 3
RefChunks ==
  { <<"(","(">> \o Uuid1 \o <<")",")">>, <<"(","(">> \o Uuid2 \o <<")",")">>,
    <<"(","(">> \o ShortUuid \o <<")",")">>, <<"(">>, <<"a"," ","b">> }

RefConfigs == {DefaultConfig, [DefaultConfig EXCEPT !.block_refs_mode = "remove"]}

InitBlockRefs == StageInit(ChunkTexts(RefChunks, MaxRefChunks), RefConfigs, StartStats)

BlockRefsDone(r) ==
  /\ text' = r.text
  /\ stats' = [stats EXCEPT !.block_refs_flagged = @ + r.count]
  /\ pc' = "done"

ApplyBlockRefs ==
  /\ pc = "start"
  /\ BlockRefsDone(handle_block_references(text, cfg.block_refs_mode))
  /\ UNCHANGED <<cfg, before, src, idx, fs, input, keys>>

SpecBlockRefs == InitBlockRefs /\ [][ApplyBlockRefs]_vars

\* a token at p: two opening parentheses, 36 lowercase hex digits or hyphens
\* and two closing parentheses.  No two tokens of a text share a character.
IsToken(s, p) ==
  /\ p + IdLen + 3 <= Len(s)
  /\ SubSeq(s, p, p + 1) = <<"(","(">>
  /\ \A k \in (p + 2)..(p + IdLen + 1) : s[k] \in IdCh
  /\ SubSeq(s, p + IdLen + 2, p + IdLen + 3) = <<")",")">>
Tokens(s) == {p \in 1..Len(s) : IsToken(s, p)}
TokenAt(s, p) == SubSeq(s, p, p + IdLen + 3)

\* what stands for a token: in flag mode a visible marker around the token
\* text, in remove mode nothing
InsteadOf(token, mode) ==
  IF mode = "remove" THEN <<>>
  ELSE <<"<","!","-","-"," ","T","O","D","O",":"," ","F","i","x"," ","b","l","o","c","k"," ","r","e","f","e","r","e","n","c","e",":"," ">> \o token \o <<" ","-","-",">">>

\* the text with each token at the positions of at (ascending) replaced
RECURSIVE ReplaceTokens(_, _, _, _)
ReplaceTokens(s, p, at, mode) ==
  IF Len(at) = 0 THEN SubSeq(s, p, Len(s))
  ELSE SubSeq(s, p, at[1] - 1) \o InsteadOf(TokenAt(s, at[1]), mode)
       \o ReplaceTokens(s, at[1] + IdLen + 4, Tail(at), mode)

\* C9: in flag mode every `((36-character id))` token is replaced by a
\* visible marker that holds the token text, and the counter of flagged
\* references grows by the number of tokens; in remove mode every token is
\* deleted and the counter stays; the text outside the tokens is unchanged.
BlockRefsFlaggedOrRemoved ==
  pc = "done" =>
    /\ text = ReplaceTokens(input, 1, Ascending(Tokens(input)), cfg.block_refs_mode)
    /\ stats.block_refs_flagged =
         before.block_refs_flagged
         + (IF cfg.block_refs_mode = "remove" THEN 0 ELSE Cardinality(Tokens(input)))

\* flag mode with two tokens, one behind an extra parenthesis, after earlier
\* files had flagged five
BlockRefsFlaggedOrRemovedWitness ==
  /\ pc = "done"
  /\ cfg.block_refs_mode = "flag"
  /\ input = <<"(","(","(">> \o Uuid1 \o <<")",")","(","(">> \o Uuid2 \o <<")",")">>
  /\ text = <<"(","<","!","-","-"," ","T","O","D","O",":"," ","F","i","x"," ","b","l","o","c","k"," ","r","e","f","e","r","e","n","c","e",":"," ","(","(">> \o Uuid1
            \o <<")",")"," ","-","-",">","<","!","-","-"," ","T","O","D","O",":"," ","F","i","x"," ","b","l","o","c","k"," ","r","e","f","e","r","e","n","c","e",":"," ","(","(">> \o Uuid2 \o <<")",")"," ","-","-",">">>
  /\ before.block_refs_flagged = 5
  /\ stats.block_refs_flagged = 7

\* ------------------------------------------------------------------------
\* The task stage on its own
\* ------------------------------------------------------------------------

MaxTaskChunks == 4
TaskChunks == { <<"-"," ">>, <<"T","O","D","O">>, <<"D","O","N","E">>, <<" ">>, <<NL>>, <<"x">> }

InitTasks == StageInit(ChunkTexts(TaskChunks, MaxTaskChunks), {DefaultConfig}, {Stats0})

TasksDone(r) ==
  /\ text' = r.text
  /\ stats' = [stats EXCEPT !.tasks_converted = @ + r.count]
  /\ pc' = "done"

ApplyTasks ==
  /\ pc = "start"
  /\ TasksDone(convert_tasks(text))
  /\ UNCHANGED <<cfg, before, src, idx, fs, input, keys>>

SpecTasks == InitTasks /\ [][ApplyTasks]_vars

\* a bullet line: optional indentation, the bullet marker and white space;
\* BulletTextStart is where the text of the bullet starts
BulletDash(line) == SkipSet(line, 1, WS)
BulletTextStart(line) == SkipSet(line, BulletDash(line) + 1, WS)
IsBulletLine(line) ==
  /\ BulletDash(line) <= Len(line)
  /\ line[BulletDash(line)] = "-"
  /\ BulletTextStart(line) > BulletDash(line) + 1

\* the entries of the table whose keyword starts the text of the bullet
\* and is followed by white space
TaskStates(line) ==
  {i \in 1..Len(TASK_MAP) :
     /\ IsBulletLine(line)
     /\ StartsAt(line, BulletTextStart(line), TASK_MAP[i][1])
     /\ SkipSet(line, BulletTextStart(line) + Len(TASK_MAP[i][1]), WS)
          > BulletTextStart(line) + Len(TASK_MAP[i][1])}

\* the line with the keyword of entry i replaced by its checkbox and a space
WithCheckbox(line, i) ==
  SubSeq(line, 1, BulletTextStart(line) - 1) \o TASK_MAP[i][2] \o <<SP>>
  \o SubSeq(line, SkipSet(line, BulletTextStart(line) + Len(TASK_MAP[i][1]), WS),
            Len(line))

TaskLineOf(line) ==
  IF TaskStates(line) = {} THEN line
  ELSE WithCheckbox(line, CHOOSE i \in TaskStates(line) : TRUE)

\* C10: the task stage rewrites each bullet line that begins with the bullet
\* marker, a state keyword and at least one space so that the keyword becomes
\* its checkbox, the rest of the line kept; every other line is unchanged,
\* and the text has the same lines in number and order before and after.
TasksRewrittenLineByLine ==
  pc = "done" =>
    /\ Len(SplitOn(text, NL)) = Len(SplitOn(input, NL))
    /\ text = JoinNL([i \in 1..Len(SplitOn(input, NL)) |->
                        TaskLineOf(SplitOn(input, NL)[i])])

\* ------------------------------------------------------------------------
\* The stage sequence of convert_file applied to its own output
\* ------------------------------------------------------------------------

MaxPipelineChunks == 3
PipelineChunks ==
  { <<"(","(">> \o Uuid1 \o <<")",")">>, <<"-"," ">>, <<"T","O","D","O"," ">>, <<NL>>, <<"t","i","t","l","e",":",":"," ","T">>, <<"x">>,
    <<"#","+","B","E","G","I","N","_","T","I","P",NL>>, <<"#","+","E","N","D","_","T","I","P">> }

PipelineConfigs ==
  { [DefaultConfig EXCEPT !.block_refs_mode = m, !.flatten_top_level = f] :
      m \in {"flag", "remove"}, f \in BOOLEAN }

InitPipeline ==
  StageInit(ChunkTexts(PipelineChunks, MaxPipelineChunks), PipelineConfigs, {Stats0})

PipelineDone(r) ==
  /\ text' = r.text
  /\ before' = stats
  /\ stats' = AddCounts(stats, r)
  /\ pc' = IF pc = "start" THEN "once" ELSE "twice"

ApplyPipeline ==
  /\ pc \in {"start", "once"}
  /\ PipelineDone(Pipeline(text, cfg))
  /\ UNCHANGED <<cfg, src, idx, fs, input, keys>>

SpecPipeline == InitPipeline /\ [][ApplyPipeline]_vars

\* C5: the stage sequence is idempotent: applied to its own output it
\* returns that output unchanged, and the second application converts
\* nothing (no counter of the statistics moves), for every text and every
\* configuration of block-reference mode and flattening.
PipelineIdempotent ==
  pc = "twice" =>
    /\ text = Pipeline(input, cfg).text
    /\ Counters(stats) = Counters(before)

\* ------------------------------------------------------------------------
\* The numbered-list stage on its own
\* ------------------------------------------------------------------------

MaxListItems == 4
\* blocks of an outline: a numbered item at depth 0 and at depth 1 (the
\* bullet and, under it, its marker line), a plain bullet at depth 0 and at
\* depth 1, a line of text, a marker line on its own, and an empty numbered
\* item, which carries the marker on the bullet line
OutlineBlocks ==
  { <<"-"," ","a",NL," "," ">> \o OrderMarker, <<TAB,"-"," ","b",NL,TAB," "," ">> \o OrderMarker,
    <<"-"," ","p">>, <<TAB,"-"," ","q">>, <<"x">>, <<" "," ">> \o OrderMarker, <<"-"," ">> \o OrderMarker }

InitNumbered == StageInit(LineTexts(OutlineBlocks, MaxListItems), {DefaultConfig}, {Stats0})

ApplyNumbered ==
  /\ pc = "start"
  /\ text' = convert_numbered_lists(text)
  /\ pc' = "done"
  /\ UNCHANGED <<cfg, stats, before, src, idx, fs, input, keys>>

SpecNumbered == InitNumbered /\ [][ApplyNumbered]_vars

\* a tab-indented bullet: tabs (their number is the depth), the bullet marker
\* and white space; its text is what follows that white space
Depth(line) ==
  Cardinality({k \in 1..Len(line) : \A j \in 1..k : line[j] = TAB})
IsTabBullet(line) ==
  /\ Len(line) >= Depth(line) + 2
  /\ line[Depth(line) + 1] = "-"
  /\ line[Depth(line) + 2] \in WS
ItemText(line) == LStrip(SubSeq(line, Depth(line) + 2, Len(line)))

\* the marker lines of a text; a numbered item is a bullet immediately
\* followed by a marker line, a plain bullet one that is not
IsMarkerLine(lines, i) == i \in 1..Len(lines) /\ Contains(lines[i], OrderMarker)
IsNumberedItem(lines, i) ==
  IsTabBullet(lines[i]) /\ ~IsMarkerLine(lines, i) /\ IsMarkerLine(lines, i + 1)
IsPlainBullet(lines, i) ==
  IsTabBullet(lines[i]) /\ ~IsMarkerLine(lines, i) /\ ~IsMarkerLine(lines, i + 1)

\* line k resets the numbering of depth d
ResetsDepth(lines, k, d) ==
  \/ IsPlainBullet(lines, k) /\ Depth(lines[k]) <= d
  \/ IsNumberedItem(lines, k) /\ Depth(lines[k]) < d
\* the number of the numbered item at line i
ItemNumber(lines, i) ==
  1 + Cardinality({j \in 1..(i - 1) :
        /\ IsNumberedItem(lines, j)
        /\ Depth(lines[j]) = Depth(lines[i])
        /\ \A k \in (j + 1)..(i - 1) : ~ResetsDepth(lines, k, Depth(lines[i]))})

RenderedLine(lines, i) ==
  IF IsNumberedItem(lines, i)
    THEN SubSeq(lines[i], 1, Depth(lines[i])) \o Dec(ItemNumber(lines, i))
         \o <<"."," ">> \o ItemText(lines[i])
    ELSE lines[i]
RenderedLines(lines, staying) ==
  [k \in 1..Len(staying) |-> RenderedLine(lines, staying[k])]
NumberedOutline(lines) ==
  JoinNL(RenderedLines(lines,
           Ascending({i \in 1..Len(lines) : ~IsMarkerLine(lines, i)})))

\* C11: a tab-indented bullet at depth D immediately followed by the marker
\* line is rendered as `<n>. <text>` at its indentation, n being 1 plus the
\* number of items numbered at depth D since depth D was last reset; depth D
\* is reset by a plain bullet at depth D or shallower and by a numbered item
\* shallower than D, and by nothing else; every other line is kept; and the
\* marker line is in no line of the output.
NumberedListsRebuilt ==
  pc = "done" =>
    /\ text = NumberedOutline(SplitOn(input, NL))
    /\ \A i \in 1..Len(SplitOn(text, NL)) : ~Contains(SplitOn(text, NL)[i], OrderMarker)

\* ------------------------------------------------------------------------
\* The destination of a page file on its own
\* ------------------------------------------------------------------------

MaxNameChunks == 4
\* names that pages_dir.glob("*.md") can yield: a file name holds no "/"
NameChunks == { <<"A">>, <<"b",".","c">>, <<"%","2","F">>, <<"%","2","f">>, <<".",".">> }
PageNames == {stem \o <<".","m","d">> : stem \in ChunkTexts(NameChunks, MaxNameChunks)}

NameConfigs == {[DefaultConfig EXCEPT !.namespaces_to_folders = n] : n \in BOOLEAN}

InitPagePath == StageInit(PageNames, NameConfigs, {Stats0})

\* dest_name = self.process_namespace_path(source_file.name): text becomes
\* the path returned
ApplyPagePath ==
  /\ pc = "start"
  /\ text' = process_namespace_path(text, cfg.namespaces_to_folders)
  /\ pc' = "done"
  /\ UNCHANGED <<cfg, stats, before, src, idx, fs, input, keys>>

SpecPagePath == InitPagePath /\ [][ApplyPagePath]_vars

\* the encoded separators of a file name, its extension (after the last
\* dot) and its stem (before it)
Separators(name) == {p \in 1..Len(name) : StartsAtI(name, p, <<"%","2","F">>)}
LastDot(name) == CHOOSE d \in 1..Len(name) :
                   name[d] = "." /\ \A k \in (d + 1)..Len(name) : name[k] # "."
Extension(name) == SubSeq(name, LastDot(name), Len(name))
Stem(name) == SubSeq(name, 1, LastDot(name) - 1)

\* the segments of a stem between its separators at (ascending)
RECURSIVE SegmentsOf(_, _, _)
SegmentsOf(stem, p, at) ==
  IF Len(at) = 0 THEN <<SubSeq(stem, p, Len(stem))>>
  ELSE <<SubSeq(stem, p, at[1] - 1)>> \o SegmentsOf(stem, at[1] + 3, Tail(at))
Segments(name) == SegmentsOf(Stem(name), 1, Ascending(Separators(Stem(name))))

\* the stem with a hyphen for every separator
RECURSIVE Hyphenated(_)
Hyphenated(segments) ==
  IF Len(segments) = 1 THEN segments[1]
  ELSE segments[1] \o <<"-">> \o Hyphenated(Tail(segments))

\* folders named by segments: an empty segment or "." names no folder
Folders(segments) == SelectSeq(segments, LAMBDA x : x # <<>> /\ x # <<".">>)

\* C12: the destination of a page file, relative to the pages folder: with
\* namespace mode on and a separator in the name, the segments but the last
\* as nested folders and the last segment plus the extension as file name;
\* otherwise the flat name with a hyphen for every separator; in both modes
\* the file name ends with the source's extension.
PagePathFromNamespace ==
  pc = "done" =>
    LET segments == Segments(input)
        n == Len(segments)
    IN /\ ~text.abs
       /\ text.parts =
            IF cfg.namespaces_to_folders /\ n > 1
              THEN Folders(SubSeq(segments, 1, n - 1))
                   \o <<segments[n] \o Extension(input)>>
              ELSE <<Hyphenated(segments) \o Extension(input)>>
       /\ LET file == text.parts[Len(text.parts)]
          IN SubSeq(file, Len(file) - Len(Extension(input)) + 1, Len(file))
               = Extension(input)

\* C19: the path returned for a page file stays inside the pages folder of
\* the output: it is not absolute and none of its segments is `..`, for
\* every file name and both namespace modes.
PagePathInsideVault ==
  pc = "done" =>
    /\ ~text.abs
    /\ \A i \in 1..Len(text.parts) : text.parts[i] # <<".",".">>

\* the entries of the table whose keyword is on a task bullet of the text
StatesPresent(s) ==
  {i \in 1..Len(TASK_MAP) :
     \E k \in 1..Len(SplitOn(s, NL)) : i \in TaskStates(SplitOn(s, NL)[k])}

\* C13: the task stage adds to the counter of converted tasks exactly one
\* for each state keyword that is on a task bullet of the text it is given,
\* however often, and nothing for the other keywords: one `- TODO ...`
\* bullet adds one.
TasksCountedByPresence ==
  pc = "done" =>
    stats.tasks_converted = before.tasks_converted + Cardinality(StatesPresent(input))

\* C14: the statistics move only when a file's conversion completes: a step
\* of the batch that ends in an error (it adds an entry to the error list)
\* leaves the five counters as they were before that file.
CountersOnlyOnCompletion ==
  [][Len(stats'.errors) > Len(stats.errors) => Counters(stats') = Counters(stats)]_vars

\* how many of the lines are the line x
Occurrences(lines, x) == Cardinality({k \in 1..Len(lines) : lines[k] = x})

\* C15: a line of the leading property run whose key is reserved is dropped:
\* the output holds it no more often than the text after the run does, no
\* line of the output is a frontmatter entry of its key, and its key is not
\* among the keys returned, whether or not the run holds another property.
ReservedKeysDropped ==
  pc = "done" =>
    LET lines == SplitOn(input, NL)
        rest == SubSeq(lines, RunLength(lines) + 1, Len(lines))
    IN \A i \in 1..RunLength(lines) :
         LineKey(lines[i]) \in ReservedKeys =>
           /\ Occurrences(SplitOn(text, NL), lines[i]) = Occurrences(rest, lines[i])
           /\ \A k \in 1..Len(SplitOn(text, NL)) :
                ~StartsAt(SplitOn(text, NL)[k], 1, LineKey(lines[i]) \o <<":"," ">>)
           /\ \A k \in 1..Len(keys) : keys[k] # LineKey(lines[i])

\* C16: an identifier line that is the first line of the text has no line
\* before it and is dropped: no line of the output is that line, alone or
\* with an anchor behind it.
LeadingIdLineDropped ==
  pc = "done" =>
    LET lines == SplitOn(input, NL)
        out == SplitOn(text, NL)
    IN IsIdLine(lines[1]) =>
         \A k \in 1..Len(out) :
           out[k] # lines[1] /\ ~StartsAt(out[k], 1, lines[1] \o <<" ","^">>)

\* ------------------------------------------------------------------------
\* The admonition stage on indented blocks
\* ------------------------------------------------------------------------

MaxIndentChunks == 4
IndentChunks ==
  { <<" "," ">>, <<"#","+","B","E","G","I","N","_","T","I","P",NL>>, <<TAB>> \o <<"#","+","B","E","G","I","N","_","T","I","P",NL>>, <<"h","i",NL>>, <<NL>>,
    <<"#","+","E","N","D","_","T","I","P">> }

InitIndentedAdmonitions ==
  StageInit(ChunkTexts(IndentChunks, MaxIndentChunks), {DefaultConfig}, {Stats0})

SpecIndentedAdmonitions == InitIndentedAdmonitions /\ [][ApplyAdmonitions]_vars

\* the leading white space of the line of the begin marker at p, when only
\* white space stands before the marker on its line
LineStartOf(s, p) ==
  1 + CHOOSE n \in 0..(p - 1) :
        (n = 0 \/ s[n] = NL) /\ \A k \in (n + 1)..(p - 1) : s[k] # NL
BeginIndent(s, p) ==
  IF \A k \in LineStartOf(s, p)..(p - 1) : s[k] \in WS
    THEN SubSeq(s, LineStartOf(s, p), p - 1)
    ELSE <<>>

\* the quoted body lines of a callout, each behind the indentation
RECURSIVE IndentedQuotedLines(_, _)
IndentedQuotedLines(lines, indent) ==
  IF Len(lines) = 0 THEN <<>>
  ELSE (IF Strip(lines[1]) = <<>> THEN <<>>
        ELSE <<NL>> \o indent \o <<">"," ">> \o Strip(lines[1]))
       \o IndentedQuotedLines(Tail(lines), indent)

\* the text with each region replaced by its callout at the indentation of
\* the begin line (the indentation itself stands before the region)
RECURSIVE WithIndentedCallouts(_, _, _)
WithIndentedCallouts(s, p, starts) ==
  IF Len(starts) = 0 THEN SubSeq(s, p, Len(s))
  ELSE SubSeq(s, p, starts[1] - 1)
       \o <<">"," ","[","!">> \o CalloutType(TypeName(s, starts[1])) \o <<"]">>
       \o IndentedQuotedLines(SplitOn(RegionBody(s, starts[1]), NL),
                              BeginIndent(s, starts[1]))
       \o WithIndentedCallouts(s, RegionLast(s, starts[1]) + 1, Tail(starts))

\* C17: the callout keeps the indentation of the begin line: behind leading
\* white space W on the line of the begin marker, the header line and every
\* quoted body line of the callout start with W and `> `.
CalloutKeepsIndentation ==
  pc = "done" =>
    text = WithIndentedCallouts(input, 1, Ascending(RegionStarts(input)))

\* the session after one more file: convert_file on the file's destination
BatchStep(prev, file) ==
  convert_file(prev.stats, prev.fs, file, DestOf(file, cfg), cfg)
\* the session after the first n files of the queue q, from a new session
\* and an output without files
RECURSIVE BatchAfter(_, _)
BatchAfter(q, n) ==
  IF n = 0
    THEN [stats |-> Stats0, fs |-> [outdir |-> TRUE, files |-> {}, assets |-> "absent"]]
    ELSE BatchStep(BatchAfter(q, n - 1), q[n])

\* the orders in which the globs can yield the files of q
Orders(q) ==
  {p \in SourceQueues :
     Len(p) = Len(q) /\ {p[i] : i \in 1..Len(p)} = {q[i] : i \in 1..Len(q)}}

SameResult(r) ==
  r.fs.files = fs.files /\ Counters(r.stats) = Counters(stats)

\* C18: the result of a batch does not depend on the order of discovery:
\* every order of the same files ends with the same destination files, the
\* same contents and the same counters, and no two distinct source files
\* have the same destination.
OrderIndependent ==
  pc = "done" =>
    /\ \A q \in Orders(src.files) : SameResult(BatchAfter(q, Len(q)))
    /\ \A i, j \in 1..Len(src.files) :
         i # j => DestOf(src.files[i], cfg) # DestOf(src.files[j], cfg)

\* ------------------------------------------------------------------------
\* The flatten pass on its own
\* ------------------------------------------------------------------------

MaxFlattenLines == 4
FlattenLines == { <<"-"," ","a">>, <<TAB,"-"," ","b">>, <<TAB,TAB,"-"," ","c">>, <<TAB,"t">>, <<"x">>, <<>> }

FlattenConfigs == {[DefaultConfig EXCEPT !.flatten_top_level = f] : f \in BOOLEAN}

InitFlatten ==
  StageInit(LineTexts(FlattenLines, MaxFlattenLines), FlattenConfigs, {Stats0})

\* lines 341-342: if self.flatten_top_level: content = self.flatten_...
ApplyFlatten ==
  /\ pc = "start"
  /\ text' = IF cfg.flatten_top_level THEN flatten_top_level_bullets(text) ELSE text
  /\ pc' = "done"
  /\ UNCHANGED <<cfg, stats, before, src, idx, fs, input, keys>>

SpecFlatten == InitFlatten /\ [][ApplyFlatten]_vars

\* a zero-indent bullet, and the lines inside a flattened section: those
\* behind a zero-indent bullet
IsTopBullet(line) == Depth(line) = 0 /\ IsTabBullet(line)
InFlattened(lines, i) == \E j \in 1..(i - 1) : IsTopBullet(lines[j])

\* the lines that line i becomes
FlattenedLine(lines, i) ==
  IF IsTopBullet(lines[i]) THEN <<ItemText(lines[i]), <<>>>>
  ELSE IF InFlattened(lines, i) /\ Depth(lines[i]) = 1 THEN <<Tail(lines[i])>>
  ELSE <<lines[i]>>
RECURSIVE FlattenedFrom(_, _)
FlattenedFrom(lines, i) ==
  IF i > Len(lines) THEN <<>>
  ELSE FlattenedLine(lines, i) \o FlattenedFrom(lines, i + 1)

\* C20: with the flatten option on, each zero-indent bullet becomes its text
\* and a blank line, a later line loses one indentation unit only if it is
\* inside a flattened section and indented by exactly one level, and lines
\* before the first top-level bullet and lines indented by two or more levels
\* stay as they are (runs of blank lines collapsed); with the option off the
\* text is left alone.
FlattenOnlyOneLevel ==
  pc = "done" =>
    text = IF cfg.flatten_top_level
             THEN CollapseNewlines(JoinNL(FlattenedFrom(SplitOn(input, NL), 1)), 1)
             ELSE input

\* the lines that line i becomes when every tab-indented line of a flattened
\* section loses its first tab
DedentedLine(lines, i) ==
  IF IsTopBullet(lines[i]) THEN <<ItemText(lines[i]), <<>>>>
  ELSE IF InFlattened(lines, i) /\ Depth(lines[i]) >= 1 THEN <<Tail(lines[i])>>
  ELSE <<lines[i]>>
RECURSIVE DedentedFrom(_, _)
DedentedFrom(lines, i) ==
  IF i > Len(lines) THEN <<>>
  ELSE DedentedLine(lines, i) \o DedentedFrom(lines, i + 1)

\* C20 (amended): with the flatten option on, each zero-indent bullet becomes
\* its text and a blank line, and every later line that starts with a tab
\* loses that one tab, whatever its depth; lines before the first top-level
\* bullet and lines that start with no tab stay as they are; runs of three
\* or more newlines become two.  With the option off the text is left alone.
FlattenStripsFirstTab ==
  pc = "done" =>
    text = IF cfg.flatten_top_level
             THEN CollapseNewlines(JoinNL(DedentedFrom(SplitOn(input, NL), 1)), 1)
             ELSE input

\* an indented line before the first bullet stays, the bullet is flattened
\* and the lines at depth one and two under it each lose one tab
FlattenStripsFirstTabWitness ==
  /\ pc = "done"
  /\ cfg.flatten_top_level
  /\ input = <<TAB,"t",NL,"-"," ","a",NL,TAB,"-"," ","b",NL,TAB,TAB,"-"," ","c">>
  /\ text = <<TAB,"t",NL,"a",NL,NL,"-"," ","b",NL,TAB,"-"," ","c">>

====
